---- MODULE Spec2Model ----
(***************************************************************************)
(* Model of lambda/autoscale/autoscale.py: the Lambda function that reacts *)
(* to autoscaling notifications, searches the lowest free hostname counter *)
(* in a Route53 zone and writes the Name tag and the A record.             *)
(*                                                                         *)
(* Strings are sequences of tokens: a token is a character that matters    *)
(* ("." "@" and the decimal digits), the placeholder "#counter", or a      *)
(* chunk of other characters ("web-", "example", "com").                   *)
(***************************************************************************)
EXTENDS Naturals, Sequences, FiniteSets, TLC

VARIABLES
  st,     \* EC2: instance id -> instance-state-name
  ip,     \* EC2: instance id -> PrivateIpAddress ("" when it has none)
  tag,    \* EC2: instance id -> value of the Name tag (<<>> when absent)
  zone,   \* Route53: record name -> value of its A record ("" when absent)
  h,      \* the sequential lambda_handler invocation and its locals
  procs   \* concurrent process_message invocations (ConcSpec only)

vars == <<st, ip, tag, zone, h, procs>>

----------------------------------------------------------------------------
(* Bounds and the finite sets inputs are drawn from *)

MaxCounter == 2          \* the zone of Spec and ConcSpec holds web-1 .. web-MaxCounter
MaxBatch == 2            \* records per SNS event

Instances == {"i-1", "i-2"}
IPs == {"10.0.0.5", "10.0.0.7"}
Procs == {"p1", "p2"}

NoIp == ""
NoTag == <<>>

\* The API calls of the allocator that can fail for want of the service (a
\* throttled or unreachable endpoint raises botocore's ClientError); an outage
\* is the set of calls that fail while one record is processed
LIST == "list_resource_record_sets"
DESCRIBE == "describe_instances"
NoOutage == {}
Outages == {NoOutage, {LIST}, {DESCRIBE}}

----------------------------------------------------------------------------
(* Strings *)

Digit == <<"0", "1", "2", "3", "4", "5", "6", "7", "8", "9">>

\* str(my_counter)
RECURSIVE Str(_)
Str(n) == IF n < 10 THEN <<Digit[n + 1]>>
          ELSE Str(n \div 10) \o <<Digit[(n % 10) + 1]>>

\* s.split(sep): the pieces of s between the occurrences of sep
RECURSIVE Split(_, _)
Split(s, sep) ==
  IF \A k \in 1..Len(s) : s[k] # sep THEN <<s>>
  ELSE LET k == CHOOSE j \in 1..Len(s) :
                  s[j] = sep /\ \A m \in 1..(j - 1) : s[m] # sep
       IN <<SubSeq(s, 1, k - 1)>> \o Split(SubSeq(s, k + 1, Len(s)), sep)

\* hostname_pattern.replace('#counter', str(my_counter))
RECURSIVE Replace(_, _)
Replace(pattern, c) ==
  IF pattern = <<>> THEN <<>>
  ELSE (IF Head(pattern) = "#counter" THEN Str(c) ELSE <<Head(pattern)>>)
       \o Replace(Tail(pattern), c)

\* The value of the asg:hostname_pattern tag of each group ("pattern@zone_id");
\* <<>> for a group that does not carry the tag.
AsgTagValue(asg_name) ==
  IF asg_name = "asg-web" THEN <<"web-", "#counter", "@", "Z1">> ELSE <<>>

AsgNames == {"asg-web", "asg-untagged"}

\* route53.get_hosted_zone(Id=zone_id)['HostedZone']['Name']
get_zone_name(zone_id) == <<"example", ".", "com", ".">>

\* hostname + "." + dns_name
DnsHostname(hostname, zone_id) == hostname \o <<".">> \o get_zone_name(zone_id)

\* The record names of the zone that the model keeps
RecordName(c) == DnsHostname(Replace(<<"web-", "#counter">>, c), <<"Z1">>)
RecordNames == {RecordName(c) : c \in 1..MaxCounter}

\* The names of the zones the allocator is applied to on its own (PureSpec)
MaxName == MaxCounter + 2
AllNames == {RecordName(c) : c \in 1..MaxName}

----------------------------------------------------------------------------
(* Route53 *)

\* Rank of a token in the character order Route53 sorts names by: "." sorts
\* before the digits, the digits before the letters.
TokenRank(t) ==
  IF t = "." THEN 0
  ELSE IF \E d \in 1..10 : Digit[d] = t THEN CHOOSE d \in 1..10 : Digit[d] = t
  ELSE IF t = "com" THEN 11
  ELSE IF t = "example" THEN 12
  ELSE 13

RECURSIVE Reverse(_)
Reverse(s) == IF s = <<>> THEN <<>> ELSE Reverse(Tail(s)) \o <<Head(s)>>

RECURSIVE Join(_)
Join(labels) ==
  IF labels = <<>> THEN <<>>
  ELSE IF Len(labels) = 1 THEN Head(labels)
  ELSE Head(labels) \o <<".">> \o Join(Tail(labels))

\* list_resource_record_sets sorts by name with the labels reversed
\* (web-1.example.com. sorts as .com.example.web-1)
SortKey(name) == Join(Reverse(Split(name, ".")))

RECURSIVE LexLeq(_, _)
LexLeq(a, b) ==
  IF a = <<>> THEN TRUE
  ELSE IF b = <<>> THEN FALSE
  ELSE IF TokenRank(Head(a)) < TokenRank(Head(b)) THEN TRUE
  ELSE IF TokenRank(Head(a)) > TokenRank(Head(b)) THEN FALSE
  ELSE LexLeq(Tail(a), Tail(b))

NameLeq(n1, n2) == LexLeq(SortKey(n1), SortKey(n2))

\* The names the allocator can probe, and for each the record names that are
\* equal to it or sort after it, in Route53's order (tables of NameLeq)
ProbeNames == {RecordName(c) : c \in 1..(MaxName + 1)}

NamesFrom == [start \in ProbeNames |-> {n \in AllNames : NameLeq(start, n)}]

NameRank == [n \in AllNames |-> Cardinality({m \in AllNames : NameLeq(m, n)})]

\* route53.list_resource_record_sets(StartRecordName=start, StartRecordType='A',
\* MaxItems='1')['ResourceRecordSets']: the listing starts at the first record
\* whose name is start or sorts after it; at most one record is returned.
ListResourceRecordSets(z, start) ==
  LET after == {n \in NamesFrom[start] \cap DOMAIN z : z[n] # NoIp}
  IN IF after = {} THEN {}
     ELSE {CHOOSE n \in after : \A m \in after : NameRank[n] <= NameRank[m]}

\* The bare except of line 52 catches whatever the listing raises
fetch_private_ip_from_route53(hostname, zone_id, z, down) ==
  LET dns_hostname == DnsHostname(hostname, zone_id)
      sets == ListResourceRecordSets(z, dns_hostname)
  IN IF LIST \in down THEN NoIp         \* ClientError, caught: return ""
     ELSE IF sets = {} THEN NoIp         \* IndexError, caught: return ""
     ELSE z[CHOOSE n \in sets : TRUE]

----------------------------------------------------------------------------
(* EC2 *)

LiveStates == {"pending", "running"}

\* ec2.describe_instances(Filters=[private-ip-address, instance-state-name in
\* pending|running])['Reservations']
LiveReservations(private_ip, s, a) ==
  {i \in DOMAIN s : a[i] = private_ip /\ s[i] \in LiveStates}

\* fetch_private_ip_from_ec2: "" when the instance has no network interface
fetch_private_ip_from_ec2(instance_id, a) == a[instance_id]

----------------------------------------------------------------------------
(* The allocator *)

\* Mutant of Search: a name that resolves is taken as occupied without asking
\* EC2 whether a live instance is bound to its address
RECURSIVE SearchNoRegistry(_, _, _, _, _, _, _)
SearchNoRegistry(my_counter, hostname_pattern, zone_id, z, s, a, down) ==
  IF fetch_private_ip_from_route53(Replace(hostname_pattern, my_counter),
                                   zone_id, z, down) = NoIp
    THEN my_counter
  ELSE SearchNoRegistry(my_counter + 1, hostname_pattern, zone_id, z, s, a, down)

\* What the search yields when ec2.describe_instances raises (line 97 is not
\* inside a try): no counter, the exception leaves fetch_first_available_count.
\* The loop itself counts from 1 and line 108 is never reached.
Raised == 0

\* The loop of lines 89-107
RECURSIVE Search(_, _, _, _, _, _, _)
Search(my_counter, hostname_pattern, zone_id, z, s, a, down) ==
  LET new_hostname == Replace(hostname_pattern, my_counter)
      private_ip == fetch_private_ip_from_route53(new_hostname, zone_id, z, down)
  IN IF private_ip = NoIp THEN my_counter
     ELSE IF DESCRIBE \in down THEN Raised
     ELSE IF LiveReservations(private_ip, s, a) = {} THEN my_counter
     ELSE Search(my_counter + 1, hostname_pattern, zone_id, z, s, a, down)

fetch_first_available_count(hostname_pattern, zone_id, z, s, a, down) ==
  Search(1, hostname_pattern, zone_id, z, s, a, down)

\* The address the search resolved last, for the counter it returned
LastResolved(hostname_pattern, zone_id, z, s, a, down) ==
  fetch_private_ip_from_route53(
    Replace(hostname_pattern,
            fetch_first_available_count(hostname_pattern, zone_id, z, s, a, down)),
    zone_id, z, down)

\* <<>> when the exception of the search passes through
build_hostname(hostname_pattern, zone_id, z, s, a, down) ==
  LET first_count == fetch_first_available_count(hostname_pattern, zone_id, z, s, a, down)
  IN IF first_count = Raised THEN <<>> ELSE Replace(hostname_pattern, first_count)

\* tag_name = hostname.split('.')[0]
TagNameOf(hostname) == Split(hostname, ".")[1]

----------------------------------------------------------------------------
(* Messages *)

LAUNCH == "autoscaling:EC2_INSTANCE_LAUNCH"
TERMINATE == "autoscaling:EC2_INSTANCE_TERMINATE"
LAUNCH_ERROR == "autoscaling:EC2_INSTANCE_LAUNCH_ERROR"
TEST_NOTIFICATION == "autoscaling:TEST_NOTIFICATION"

EventTypes == {LAUNCH, TERMINATE, LAUNCH_ERROR, TEST_NOTIFICATION}
DeleteEvents == {TERMINATE, LAUNCH_ERROR}

\* The JSON message of one SNS record. LifecycleHookName, LifecycleActionToken
\* and LifecycleTransition are keys a message may or may not carry; every
\* message carries Event, AutoScalingGroupName and EC2InstanceId.
\* LifecycleTransition is read for an unknown event type only (line 162); the
\* lifecycle keys are read after the loop only (lines 197-202), which a record
\* of an untagged group never reaches (line 67 raises).
Messages ==
  {m \in [Event : EventTypes,
          AutoScalingGroupName : AsgNames,
          EC2InstanceId : Instances,
          LifecycleHookName : BOOLEAN,
          LifecycleActionToken : BOOLEAN,
          LifecycleTransition : BOOLEAN] :
     /\ (m.LifecycleTransition => m.Event = TEST_NOTIFICATION)
     /\ (m.LifecycleActionToken => m.LifecycleHookName)
     /\ (m.AutoScalingGroupName = "asg-untagged" => ~m.LifecycleHookName)
     /\ (m.Event = TEST_NOTIFICATION => m.LifecycleActionToken = m.LifecycleHookName)
     \* a launch error is announced by a plain notification, never by a hook
     /\ (m.Event = LAUNCH_ERROR => ~m.LifecycleHookName)}

NoMessage == [Event |-> "", AutoScalingGroupName |-> "", EC2InstanceId |-> "",
              LifecycleHookName |-> FALSE, LifecycleActionToken |-> FALSE,
              LifecycleTransition |-> FALSE]

\* One call of a mutating API
Call(api, action, inst, name, value) ==
  [api |-> api, action |-> action, inst |-> inst, name |-> name, value |-> value]

----------------------------------------------------------------------------
(* process_message *)

\* describe_tags(...)['Tags'][0]['Value'].split("@"); <<>> stands for the
\* IndexError of a group without the tag
fetch_tag_metadata(asg_name) ==
  IF AsgTagValue(asg_name) = <<>> THEN <<>> ELSE Split(AsgTagValue(asg_name), "@")

\* Mutant of OperationOf: the else branch falls back to an operation
OperationOfDefaulting(message) ==
  IF message.Event \in DeleteEvents THEN "DELETE" ELSE "UPSERT"

\* Mutant of OperationOf: the delete events take the UPSERT branch too
OperationOfUpsertOnDelete(message) ==
  IF message.Event \in {LAUNCH} \cup DeleteEvents THEN "UPSERT" ELSE ""

\* Mutant of OperationOf: the elif of line 159 is missing
OperationOfLaunchOnly(message) ==
  IF message.Event = LAUNCH THEN "UPSERT" ELSE ""

\* operation of lines 157-162; "" when the name stays unbound
OperationOf(message) ==
  IF message.Event = LAUNCH THEN "UPSERT"
  ELSE IF message.Event \in DeleteEvents THEN "DELETE"
  ELSE ""

\* Mutant of update_name_tag: the tag is the whole DNS name
update_name_tag_unsplit(t, instance_id, hostname) ==
  [t EXCEPT ![instance_id] = hostname]

\* update_name_tag: ec2.create_tags(Resources=[instance_id], Tags=[Name: tag_name])
update_name_tag(t, instance_id, hostname) ==
  [t EXCEPT ![instance_id] = TagNameOf(hostname)]

\* Route53 refuses a change batch whose A record value is no IPv4 address
ChangeAccepted(private_ip) == private_ip # NoIp

\* update_record: route53.change_resource_record_sets with one change
update_record(z, private_ip, hostname, operation) ==
  IF operation = "UPSERT"
    THEN [n \in DOMAIN z \cup {hostname} |-> IF n = hostname THEN private_ip ELSE z[n]]
  ELSE IF hostname \in DOMAIN z /\ z[hostname] = private_ip
    THEN [z EXCEPT ![hostname] = NoIp]
  ELSE z

\* Mutant of UpsertCalls: the record is written before the tag
UpsertCallsRecordFirst(instance_id, dns_hostname, private_ip) ==
  <<Call("change_resource_record_sets", "UPSERT", instance_id, dns_hostname, private_ip),
    Call("create_tags", "", instance_id, TagNameOf(dns_hostname), "")>>

\* Lines 176-177: the calls of the UPSERT branch in the order they are made
UpsertCalls(instance_id, dns_hostname, private_ip) ==
  <<Call("create_tags", "", instance_id, TagNameOf(dns_hostname), ""),
    Call("change_resource_record_sets", "UPSERT", instance_id, dns_hostname, private_ip)>>

\* searched: fetch_first_available_count was entered
Outcome(err, z, t, calls, hostname, searched) ==
  [err |-> err, zone |-> z, tag |-> t, calls |-> calls, hostname |-> hostname,
   searched |-> searched]

\* The effect of process_message(message) on the zone z and the tags t, with
\* the registry (s, a) as it is and the calls of down failing; err = "" when
\* it returns normally.
process_message(message, z, t, s, a, down) ==
  LET operation == OperationOf(message)
      instance_id == message.EC2InstanceId
      meta == fetch_tag_metadata(message.AutoScalingGroupName)
  IN
  IF operation = "" /\ ~message.LifecycleTransition
    THEN Outcome("KeyError:LifecycleTransition", z, t, <<>>, <<>>, FALSE)  \* line 162
  ELSE IF meta = <<>>
    THEN Outcome("IndexError", z, t, <<>>, <<>>, FALSE)         \* line 67
  ELSE IF Len(meta) # 2
    THEN Outcome("ValueError", z, t, <<>>, <<>>, FALSE)         \* line 167
  ELSE
  LET hostname_pattern == meta[1]
      zone_id == meta[2]
      hostname == build_hostname(hostname_pattern, zone_id, z, s, a, down)
      dns_hostname == DnsHostname(hostname, zone_id)
  IN
  IF hostname = <<>>
    THEN Outcome("ClientError", z, t, <<>>, <<>>, TRUE)         \* line 97
  ELSE IF operation = ""
    THEN Outcome("UnboundLocalError", z, t, <<>>, dns_hostname, TRUE)  \* line 173
  ELSE IF operation = "UPSERT"
    THEN IF DESCRIBE \in down
           THEN Outcome("ClientError", z, t, <<>>, dns_hostname, TRUE)  \* line 22
         ELSE
         LET private_ip == fetch_private_ip_from_ec2(instance_id, a)
             t2 == update_name_tag(t, instance_id, dns_hostname)
             calls == UpsertCalls(instance_id, dns_hostname, private_ip)
         IN IF ChangeAccepted(private_ip)
              THEN Outcome("", update_record(z, private_ip, dns_hostname, operation),
                           t2, calls, dns_hostname, TRUE)
              ELSE Outcome("InvalidChangeBatch", z, t2, calls, dns_hostname, TRUE)
  ELSE Outcome("", z, t, <<>>, dns_hostname, TRUE)

----------------------------------------------------------------------------
(* lambda_handler, one invocation at a time *)

\* applied: the instances of the records of this invocation that carry a
\* lifecycle token and that process_message returned normally for;
\* completed: the messages complete_lifecycle_action was called with;
\* searched, down: whether the last record ran the counter search, and the
\* calls that failed while it was processed
Idle == [pc |-> "idle", n |-> 0, idx |-> 0, record |-> NoMessage, err |-> "",
         hostname |-> <<>>, previous |-> NoIp, calls |-> <<>>,
         applied |-> {}, completed |-> <<>>, searched |-> FALSE, down |-> NoOutage]

\* An SNS event with n records arrives. The records are drawn one by one as
\* the loop reaches them: the handler never looks ahead in event['Records'].
Invoke(n) ==
  /\ h.pc \in {"idle", "done", "failed"}
  /\ h' = [Idle EXCEPT !.pc = "loop", !.n = n]
  /\ UNCHANGED <<st, ip, tag, zone, procs>>

\* One pass of "for record in event['Records']: process_record(record)",
\* made while the calls of down fail.
\* An exception leaves the loop and the handler (pc = "failed").
ProcessRecordDuring(message, down) ==
  /\ h.pc = "loop"
  /\ st[message.EC2InstanceId] # "none"
  /\ \E out \in {process_message(message, zone, tag, st, ip, down)} :
        \* the model's cap on the zone: no record beyond web-MaxCounter
        /\ message.Event = LAUNCH => out.hostname \in RecordNames \cup {<<>>}
        /\ zone' = out.zone
        /\ tag' = out.tag
        /\ h' = [h EXCEPT
                   !.pc = IF out.err # "" THEN "failed"
                          ELSE IF h.idx + 1 = h.n THEN "finish" ELSE "loop",
                   !.idx = h.idx + 1,
                   !.record = message,
                   !.err = out.err,
                   !.hostname = out.hostname,
                   \* the record of the built name as it was before the calls
                   !.previous = IF out.hostname \in DOMAIN zone
                                  THEN zone[out.hostname] ELSE NoIp,
                   !.calls = out.calls,
                   !.searched = out.searched,
                   !.down = down,
                   !.applied = IF out.err = "" /\ message.LifecycleActionToken
                                 THEN h.applied \cup {message.EC2InstanceId}
                               ELSE h.applied]
  /\ UNCHANGED <<st, ip, procs>>

\* The pass of the loop with every service answering
ProcessRecord(message) == ProcessRecordDuring(message, NoOutage)

\* Lines 195-208: after the loop, on the loop variable's last value.
\* AutoScalingGroupName is a key of every message of the model.
FinishLifecycle ==
  /\ h.pc = "finish"
  /\ LET message == h.record
     IN IF message.LifecycleHookName
          THEN IF message.LifecycleActionToken
                 THEN h' = [h EXCEPT !.pc = "done",
                                     !.completed = Append(h.completed, message)]
                 ELSE h' = [h EXCEPT !.pc = "failed",
                                     !.err = "KeyError:LifecycleActionToken"]
          ELSE h' = [h EXCEPT !.pc = "done"]
  /\ UNCHANGED <<st, ip, tag, zone, procs>>

----------------------------------------------------------------------------
(* The environment: the autoscaling group starts and terminates instances *)

AddressFree(a) == \A j \in Instances : ip[j] # a

StartInstance(i, a) ==
  /\ st[i] = "none"
  /\ a # NoIp => AddressFree(a)
  /\ st' = [st EXCEPT ![i] = "pending"]
  /\ ip' = [ip EXCEPT ![i] = a]
  /\ UNCHANGED <<tag, zone, h, procs>>

AttachAddress(i, a) ==
  /\ st[i] \in LiveStates
  /\ ip[i] = NoIp
  /\ AddressFree(a)
  /\ ip' = [ip EXCEPT ![i] = a]
  /\ UNCHANGED <<st, tag, zone, h, procs>>

\* An instance has its network interface by the time it is running
RunInstance(i) ==
  /\ st[i] = "pending"
  /\ ip[i] # NoIp
  /\ st' = [st EXCEPT ![i] = "running"]
  /\ UNCHANGED <<ip, tag, zone, h, procs>>

\* A terminated instance has no network interface any more
TerminateInstance(i) ==
  /\ st[i] \in LiveStates
  /\ st' = [st EXCEPT ![i] = "terminated"]
  /\ ip' = [ip EXCEPT ![i] = NoIp]
  /\ UNCHANGED <<tag, zone, h, procs>>

Environment ==
  \/ \E i \in Instances, a \in IPs \cup {NoIp} : StartInstance(i, a)
  \/ \E i \in Instances, a \in IPs : AttachAddress(i, a)
  \/ \E i \in Instances : RunInstance(i)
  \/ \E i \in Instances : TerminateInstance(i)

----------------------------------------------------------------------------
(* Specification: events handled one invocation after the other *)

NoProc == [pc |-> "idle", instance_id |-> "", my_counter |-> 0,
           private_ip |-> NoIp, hostname |-> <<>>]

Init ==
  /\ st = [i \in Instances |-> "none"]
  /\ ip = [i \in Instances |-> NoIp]
  /\ tag = [i \in Instances |-> NoTag]
  /\ zone = [n \in RecordNames |-> NoIp]
  /\ h = Idle
  /\ procs = [p \in Procs |-> NoProc]

Next ==
  \/ \E n \in 1..MaxBatch : Invoke(n)
  \/ \E message \in Messages : ProcessRecord(message)
  \/ FinishLifecycle
  \/ Environment

Spec == Init /\ [][Next]_vars

----------------------------------------------------------------------------
(* FaultSpec: the same handler with Route53's listing or EC2's describe    *)
(* call out of service while a record is processed                         *)

FaultNext ==
  \/ \E n \in 1..MaxBatch : Invoke(n)
  \/ \E message \in Messages, down \in Outages : ProcessRecordDuring(message, down)
  \/ FinishLifecycle
  \/ Environment

FaultSpec == Init /\ [][FaultNext]_vars

----------------------------------------------------------------------------
(* ConcSpec: concurrent invocations, each handling one Launch record.        *)
(* process_message is cut at its calls of Route53 and EC2, which interleave. *)
(* Every instance has its address when its event arrives, so that the        *)
(* invocations differ from those of Spec by the interleaving alone.          *)

Meta == fetch_tag_metadata("asg-web")

\* lines 156-168 and 86-89: a Launch message for instance_id arrives
CStart(p, instance_id) ==
  /\ procs[p].pc \in {"idle", "done", "failed"}
  /\ st[instance_id] # "none"
  /\ procs' = [procs EXCEPT ![p] = [NoProc EXCEPT !.pc = "probe",
                                                  !.instance_id = instance_id,
                                                  !.my_counter = 1]]
  /\ UNCHANGED <<st, ip, tag, zone, h>>

\* lines 91-96: the lookup of the candidate name in Route53
CProbe(p) ==
  /\ procs[p].pc = "probe"
  /\ LET new_hostname == Replace(Meta[1], procs[p].my_counter)
         private_ip == fetch_private_ip_from_route53(new_hostname, Meta[2], zone, NoOutage)
     IN procs' = [procs EXCEPT ![p].private_ip = private_ip,
                               ![p].pc = IF private_ip = NoIp THEN "built" ELSE "describe"]
  /\ UNCHANGED <<st, ip, tag, zone, h>>

\* lines 97-107: the query for live instances bound to the record's address
CDescribe(p) ==
  /\ procs[p].pc = "describe"
  /\ IF LiveReservations(procs[p].private_ip, st, ip) = {}
       THEN procs' = [procs EXCEPT ![p].pc = "built"]
       ELSE procs' = [procs EXCEPT ![p].pc = "probe",
                                   ![p].my_counter = procs[p].my_counter + 1]
  /\ UNCHANGED <<st, ip, tag, zone, h>>

\* lines 115, 169-174: the hostname is built and the instance's address fetched
CFetchIp(p) ==
  /\ procs[p].pc = "built"
  /\ LET dns_hostname == DnsHostname(Replace(Meta[1], procs[p].my_counter), Meta[2])
     IN /\ dns_hostname \in RecordNames            \* the model's cap on the zone
        /\ procs' = [procs EXCEPT
                       ![p].hostname = dns_hostname,
                       ![p].private_ip = fetch_private_ip_from_ec2(procs[p].instance_id, ip),
                       ![p].pc = "tag"]
  /\ UNCHANGED <<st, ip, tag, zone, h>>

\* line 176
CUpdateNameTag(p) ==
  /\ procs[p].pc = "tag"
  /\ tag' = update_name_tag(tag, procs[p].instance_id, procs[p].hostname)
  /\ procs' = [procs EXCEPT ![p].pc = "record"]
  /\ UNCHANGED <<st, ip, zone, h>>

\* line 177
CUpdateRecord(p) ==
  /\ procs[p].pc = "record"
  /\ IF ChangeAccepted(procs[p].private_ip)
       THEN /\ zone' = update_record(zone, procs[p].private_ip, procs[p].hostname, "UPSERT")
            /\ procs' = [procs EXCEPT ![p].pc = "done"]
       ELSE /\ zone' = zone
            /\ procs' = [procs EXCEPT ![p].pc = "failed"]
  /\ UNCHANGED <<st, ip, tag, h>>

ConcNext ==
  \/ \E p \in Procs, i \in Instances : CStart(p, i)
  \/ \E p \in Procs : CProbe(p)
  \/ \E p \in Procs : CDescribe(p)
  \/ \E p \in Procs : CFetchIp(p)
  \/ \E p \in Procs : CUpdateNameTag(p)
  \/ \E p \in Procs : CUpdateRecord(p)
  \/ \E i \in Instances, a \in IPs : StartInstance(i, a)
  \/ \E i \in Instances : RunInstance(i)
  \/ \E i \in Instances : TerminateInstance(i)

ConcSpec == Init /\ [][ConcNext]_vars

----------------------------------------------------------------------------
(* PureSpec: fetch_first_available_count applied to any zone and registry *)

PureInstances == {"i-1", "i-2", "i-3"}
PureIPs == {"10.0.0.5", "10.0.0.7", "10.0.0.9"}

\* A registry EC2 can be in: live instances do not share an address, and a
\* terminated instance has none
RegistryOk(s, a) ==
  /\ \A i \in DOMAIN s : s[i] = "terminated" => a[i] = NoIp
  /\ \A i, j \in DOMAIN s : (i # j /\ a[i] # NoIp) => a[i] # a[j]

PureInit ==
  /\ st \in [PureInstances -> {"pending", "running", "terminated"}]
  /\ ip \in [PureInstances -> PureIPs \cup {NoIp}]
  /\ RegistryOk(st, ip)
  /\ tag = [i \in PureInstances |-> NoTag]
  /\ zone \in [AllNames -> PureIPs \cup {NoIp}]
  /\ h = Idle
  /\ procs = [p \in Procs |-> NoProc]

Allocate ==
  /\ procs["p1"].pc = "idle"
  /\ procs' = [procs EXCEPT
                 !["p1"].pc = "allocated",
                 !["p1"].my_counter =
                    fetch_first_available_count(Meta[1], Meta[2], zone, st, ip, NoOutage),
                 \* the local private_ip as the loop returns
                 !["p1"].private_ip =
                    LastResolved(Meta[1], Meta[2], zone, st, ip, NoOutage)]
  /\ UNCHANGED <<st, ip, tag, zone, h>>

PureNext == Allocate

PureSpec == PureInit /\ [][PureNext]_vars

----------------------------------------------------------------------------
(* Claims *)

Live(i) == st[i] \in LiveStates

\* The instance of the record the handler processed last
LastInstance == h.record.EC2InstanceId

\* A step of the handler's loop: process_message ran on h'.record
RecordStep == h'.idx = h.idx + 1

\* Counter c is occupied: its name has a record whose address is bound to a
\* pending or running instance
Occupied(c) ==
  /\ RecordName(c) \in DOMAIN zone
  /\ zone[RecordName(c)] # NoIp
  /\ \E i \in DOMAIN st : st[i] \in LiveStates /\ ip[i] = zone[RecordName(c)]

\* Counter c holds a stale record: its address is bound to no live instance
Stale(c) ==
  /\ RecordName(c) \in DOMAIN zone
  /\ zone[RecordName(c)] # NoIp
  /\ \A i \in DOMAIN st : ~(st[i] \in LiveStates /\ ip[i] = zone[RecordName(c)])

\* label is the part of name before its first "."
IsFirstLabel(label, name) ==
  /\ Len(label) < Len(name)
  /\ \A k \in 1..Len(label) : label[k] = name[k] /\ label[k] # "."
  /\ name[Len(label) + 1] = "."

\* C1 (as claimed): with events handled one after the other, no two pending or
\* running instances ever carry the same Name label, that is the same hostname.
C1_SequentialUniqueness ==
  \A i, j \in Instances :
    (i # j /\ Live(i) /\ Live(j) /\ tag[i] # NoTag) => tag[i] # tag[j]

\* C2 (as claimed): with Launch events handled by concurrent invocations whose
\* lookups and writes interleave, no two live instances end up with the same
\* hostname.
C2_ConcurrentUniqueness ==
  ~ \E i, j \in Instances :
      /\ i # j /\ Live(i) /\ Live(j)
      /\ tag[i] # NoTag /\ tag[i] = tag[j]

\* C3 (as claimed): the counter c returned by fetch_first_available_count is
\* at least 1, the name of c is free, and every counter below c is occupied.
C3_LowestFree ==
  procs["p1"].pc = "allocated" =>
    LET c == procs["p1"].my_counter
    IN c >= 1 /\ ~Occupied(c) /\ \A k \in 1..(c - 1) : Occupied(k)

\* C4: when a Launch record is processed while counter k holds a stale record
\* and every counter below k is occupied, the name of k is the one built, and,
\* the instance having an address, the record of k becomes that address.
C4_Reclaim ==
  [][\A k \in 1..MaxCounter :
       (/\ RecordStep
        /\ h'.record.Event = LAUNCH
        /\ h'.record.AutoScalingGroupName = "asg-web"
        /\ Stale(k)
        /\ \A c \in 1..(k - 1) : Occupied(c))
       => /\ h'.hostname = RecordName(k)
          /\ ip[h'.record.EC2InstanceId] # NoIp
               => zone'[RecordName(k)] = ip[h'.record.EC2InstanceId]]_vars

\* C4 witness: a Launch reclaimed web-2, which held another address before
C4_Witness ==
  /\ h.idx >= 1 /\ h.record.Event = LAUNCH /\ h.err = ""
  /\ h.hostname = RecordName(2)
  /\ h.previous # NoIp /\ h.previous # ip[LastInstance]
  /\ zone[RecordName(2)] = ip[LastInstance]

\* C5: a Launch record processed without error for an instance with address a
\* leaves the record of the built name, a name of the pattern in the zone, with
\* value a and the instance's Name tag equal to the first label of that name;
\* no other record and no other instance's tag changes.
C5_LaunchPostcondition ==
  [][(/\ RecordStep
      /\ h'.record.Event = LAUNCH
      /\ h'.err = ""
      /\ ip[h'.record.EC2InstanceId] # NoIp)
     => /\ h'.hostname \in RecordNames
        /\ zone'[h'.hostname] = ip[h'.record.EC2InstanceId]
        /\ IsFirstLabel(tag'[h'.record.EC2InstanceId], h'.hostname)
        /\ \A n \in RecordNames \ {h'.hostname} : zone'[n] = zone[n]
        /\ \A j \in Instances \ {h'.record.EC2InstanceId} : tag'[j] = tag[j]]_vars

\* C5 witness: a Launch went through and gave its instance web-2
C5_Witness ==
  /\ h.idx >= 1 /\ h.record.Event = LAUNCH /\ h.err = ""
  /\ h.hostname = RecordName(2)
  /\ tag[LastInstance] = <<"web-", "2">>
  /\ zone[RecordName(2)] = ip[LastInstance]
  /\ ip[LastInstance] # NoIp

\* C6 (as claimed): once a Terminate or LaunchError record of an instance that
\* carries a hostname has been processed, a DNS DELETE was issued for the
\* record of that hostname.
C6_TerminateIssuesDelete ==
  (/\ h.idx >= 1 /\ h.record.Event \in DeleteEvents /\ h.err = ""
   /\ tag[LastInstance] # NoTag)
  => \E k \in 1..Len(h.calls) :
        /\ h.calls[k].api = "change_resource_record_sets"
        /\ h.calls[k].action = "DELETE"
        /\ IsFirstLabel(tag[LastInstance], h.calls[k].name)

\* C7: a record whose event type is none of the three known ones changes no
\* DNS record and no Name tag, issues no call that would, and ends the handler
\* with an error.
C7_UnknownTypeFailsClosed ==
  [][(RecordStep /\ h'.record.Event \notin ({LAUNCH} \cup DeleteEvents))
     => /\ zone' = zone
        /\ tag' = tag
        /\ h'.calls = <<>>
        /\ h'.pc = "failed"
        /\ h'.err # ""]_vars

\* C7 witness: an unknown event went all the way to line 173 and failed there
C7_Witness ==
  /\ h.idx >= 1 /\ h.record.Event = TEST_NOTIFICATION
  /\ h.record.LifecycleTransition /\ h.record.LifecycleHookName
  /\ h.pc = "failed" /\ h.err = "UnboundLocalError"
  /\ \E i \in Instances : tag[i] # NoTag

\* C8 (as claimed): the handler ends only after every record of the batch has
\* been processed, whatever happened to the records before it.
C8_BatchIsolation ==
  h.pc \in {"done", "failed"} => h.idx = h.n

\* C9 (as claimed): when the handler is done, complete_lifecycle_action has
\* been called exactly once for the instance of every applied record that
\* carries a hook name and a token.
C9_ConfirmEveryEvent ==
  h.pc = "done" =>
    \A i \in h.applied :
      Cardinality({k \in 1..Len(h.completed) : h.completed[k].EC2InstanceId = i}) = 1

\* The handler went through its loop and reached lines 195-208
FinishReached ==
  \/ h.pc = "done"
  \/ h.pc = "failed" /\ h.err = "KeyError:LifecycleActionToken"

\* C10 (as claimed): when the last record carries no lifecycle token, the
\* confirmation is skipped: no complete_lifecycle_action call, and no error.
C10_NoTokenSkipsConfirmation ==
  (FinishReached /\ ~h.record.LifecycleActionToken)
  => (h.pc = "done" /\ h.completed = <<>>)

\* A pass of the loop over a Launch record of the tagged group
LaunchStep ==
  /\ RecordStep
  /\ h'.record.Event = LAUNCH
  /\ h'.record.AutoScalingGroupName = "asg-web"

\* A pass of the loop over a Terminate or LaunchError record of the tagged group
DeleteStep ==
  /\ RecordStep
  /\ h'.record.Event \in DeleteEvents
  /\ h'.record.AutoScalingGroupName = "asg-web"

\* C11 (as claimed): a Launch record of an instance that has no address fails
\* before anything is applied: an error is raised, no Name tag is written and
\* no change is sent to Route53.
C11_AddressUnavailable ==
  [][(LaunchStep /\ ip[h'.record.EC2InstanceId] = NoIp)
     => /\ h'.err # ""
        /\ tag' = tag
        /\ zone' = zone
        /\ h'.calls = <<>>]_vars

\* C12 (as claimed): a Launch record processed while the listing of Route53
\* or the describe call of EC2 fails ends with an error, writes no Name tag
\* and sends no change to Route53: no counter is taken as free.
C12_FailureIsNotFree ==
  [][(LaunchStep /\ h'.down # NoOutage)
     => /\ h'.err # ""
        /\ tag' = tag
        /\ zone' = zone
        /\ h'.calls = <<>>]_vars

\* C13: a Terminate or LaunchError record, of any group, leaves every Name tag
\* as it was and issues neither a create_tags call nor an UPSERT.
C13_DeleteWritesNoLabel ==
  [][(RecordStep /\ h'.record.Event \in DeleteEvents)
     => /\ tag' = tag
        /\ \A k \in 1..Len(h'.calls) :
              /\ h'.calls[k].api # "create_tags"
              /\ h'.calls[k].action # "UPSERT"]_vars

\* C13 witness: a Terminate was processed for a live instance that carries
\* the label web-1, and the label is still there
C13_Witness ==
  /\ h.idx >= 1 /\ h.record.Event = TERMINATE /\ h.err = "" /\ h.searched
  /\ Live(LastInstance)
  /\ tag[LastInstance] = <<"web-", "1">>

\* The zone holds no record under the name instance i is labelled with
NoRecordOf(i) ==
  \A n \in DOMAIN zone : zone[n] # NoIp => ~IsFirstLabel(tag[i], n)

\* C14: a Terminate or LaunchError record of an instance whose hostname has no
\* record is processed without error and leaves the zone as it was; and
\* processing the record the handler processed last once more leaves the zone
\* as the first processing left it.
C14_IdempotentDelete ==
  [][/\ (DeleteStep /\ NoRecordOf(h'.record.EC2InstanceId))
          => (h'.err = "" /\ zone' = zone)
     /\ (DeleteStep /\ h.idx >= 1 /\ h.err = "" /\ h'.record = h.record)
          => (h'.err = "" /\ zone' = zone)]_vars

\* C14 witness: the second record of a batch, a Terminate of an instance that
\* is gone and never had a label or a record, was processed without error
\* while the zone holds the record of another instance
C14_Witness ==
  /\ h.idx = 2 /\ h.record.Event = TERMINATE /\ h.err = ""
  /\ st[LastInstance] = "terminated"
  /\ tag[LastInstance] = NoTag
  /\ NoRecordOf(LastInstance)
  /\ \E n \in DOMAIN zone : zone[n] # NoIp

\* C17: among the calls of a record, every UPSERT comes after the create_tags
\* call that labels the same instance with the first label of the record's
\* name, and no create_tags call comes after an UPSERT; and once a Launch was
\* processed without error, the instance carries the label of the name built.
C17_LabelBeforeRecord ==
  /\ \A k \in 1..Len(h.calls) :
        h.calls[k].action = "UPSERT"
        => /\ \E j \in 1..(k - 1) :
                 /\ h.calls[j].api = "create_tags"
                 /\ h.calls[j].inst = h.calls[k].inst
                 /\ IsFirstLabel(h.calls[j].name, h.calls[k].name)
           /\ \A j \in (k + 1)..Len(h.calls) : h.calls[j].api # "create_tags"
  /\ (h.idx >= 1 /\ h.record.Event = LAUNCH /\ h.err = "")
        => IsFirstLabel(tag[LastInstance], h.hostname)

\* C17 witness: a Launch made both calls and its record is in the zone
C17_Witness ==
  /\ h.idx >= 1 /\ h.record.Event = LAUNCH /\ h.err = ""
  /\ Len(h.calls) = 2
  /\ h.calls[1].api = "create_tags"
  /\ h.calls[2].action = "UPSERT"
  /\ zone[h.hostname] = h.calls[2].value

\* C15 (as claimed): the search returns a counter after ruling out each
\* occupied slot at most once: the counters it passed over, 1 .. c - 1, are no
\* more than the occupied slots of the zone.
C15_EachSlotVisitedOnce ==
  procs["p1"].pc = "allocated" =>
    LET c == procs["p1"].my_counter
    IN /\ c >= 1
       /\ c - 1 <= Cardinality({k \in 1..MaxName : Occupied(k)})

\* C16 (as claimed): a Launch record of a live instance that already holds a
\* hostname (its label, and the record of that name with its address) is
\* processed without error and leaves the zone and the labels as they are.
C16_RedeliveryIdempotent ==
  [][(/\ LaunchStep
      /\ Live(h'.record.EC2InstanceId)
      /\ ip[h'.record.EC2InstanceId] # NoIp
      /\ \E n \in RecordNames :
            /\ zone[n] = ip[h'.record.EC2InstanceId]
            /\ IsFirstLabel(tag[h'.record.EC2InstanceId], n))
     => /\ h'.err = ""
        /\ zone' = zone
        /\ tag' = tag]_vars

\* C18 (as claimed): a Terminate or LaunchError record does not run the
\* counter search, and the name it targets is the one the instance is
\* labelled with.
C18_DeleteSearchesNothing ==
  (h.idx >= 1 /\ h.record.Event \in DeleteEvents)
  => /\ ~h.searched
     /\ (h.err = "" /\ tag[LastInstance] # NoTag)
          => IsFirstLabel(tag[LastInstance], h.hostname)

\* C19 (as claimed): the address the search resolved for the candidate it
\* returned is non-empty only if the zone holds a record of exactly that
\* candidate's name, with that address.
C19_ExactNameResolution ==
  procs["p1"].pc = "allocated" =>
    LET c == procs["p1"].my_counter
    IN procs["p1"].private_ip # NoIp
         => /\ RecordName(c) \in DOMAIN zone
            /\ zone[RecordName(c)] = procs["p1"].private_ip

\* The calls of the last record applied it: a Launch wrote the label and sent
\* the UPSERT, a Terminate or LaunchError sent the DELETE
LastRecordApplied ==
  /\ h.err = ""
  /\ h.record.Event = LAUNCH
       => /\ \E k \in 1..Len(h.calls) : h.calls[k].api = "create_tags"
          /\ \E k \in 1..Len(h.calls) : h.calls[k].action = "UPSERT"
  /\ h.record.Event \in DeleteEvents
       => \E k \in 1..Len(h.calls) : h.calls[k].action = "DELETE"

\* C20 (as claimed): complete_lifecycle_action is called for the record whose
\* apply step went through, and only then.
C20_ConfirmOnlyAfterApply ==
  \A k \in 1..Len(h.completed) :
    h.completed[k] = h.record /\ LastRecordApplied

====
